---- MODULE Spec2Model ----
(***************************************************************************)
(* Model of the Reddit persona builder: the two orchestrators              *)
(* (main.py and main_openai.py), the content fetcher, the LLM generator    *)
(* and the statistical fallback builder build_persona_simple.              *)
(*                                                                         *)
(* Python strings are sequences of one-character strings where the code    *)
(* inspects their characters (the URL, the username, the completion), and  *)
(* sequences of word / punctuation tokens where the code hands them to     *)
(* TextBlob (the item texts).  The rendered persona is the sequence of the *)
(* pieces whose concatenation is the text.                                 *)
(***************************************************************************)
EXTENDS Integers, Sequences, FiniteSets, TLC

VARIABLES prog, url, pc, username, posts, comments, reply, persona, out, log, files

\* prog: the program run; url: its argument; pc: where main() is; username,
\* posts, comments, persona: main()'s locals; reply: what the LLM service
\* answered; out: the lines printed; log: the external calls made, in order;
\* files: the writes made to the file system
vars == <<prog, url, pc, username, posts, comments, reply, persona, out, log, files>>

(***************************************************************************)
(* Bounds of the model                                                     *)
(***************************************************************************)
MaxPosts == 2
MaxComments == 2
MaxCompletion == 3

(***************************************************************************)
(* Python values                                                           *)
(***************************************************************************)
\* None, and a value that is not None
None == [isNone |-> TRUE, val |-> <<>>]
Some(v) == [isNone |-> FALSE, val |-> v]

\* a truth test that takes only an empty value, not None, as false
FalsyEmptyOnly(x) == ~x.isNone /\ x.val = <<>>

\* Python truthiness of an Optional[str] / Optional[list]: `not x`
Falsy(x) == x.isNone \/ x.val = <<>>

(***************************************************************************)
(* Strings as character sequences                                          *)
(***************************************************************************)
\* "reddit.com/user/", the path marker main() looks for
UserMarker == <<"r","e","d","d","i","t",".","c","o","m","/","u","s","e","r","/">>

\* a marker check that ignores the marker's closing "/"
ContainsLoose(s, sub) ==
  \E i \in 1..(Len(s) - Len(sub) + 2) :
     SubSeq(s, i, i + Len(sub) - 2) = SubSeq(sub, 1, Len(sub) - 1)

\* `sub in s`
Contains(s, sub) ==
  \E i \in 1..(Len(s) - Len(sub) + 1) : SubSeq(s, i, i + Len(sub) - 1) = sub

\* s.rstrip("/")
RECURSIVE RStripSlash(_)
RStripSlash(s) ==
  IF s # <<>> /\ s[Len(s)] = "/" THEN RStripSlash(SubSeq(s, 1, Len(s) - 1)) ELSE s

\* s.split("/")[-1]: the text after the last "/", the whole of s without one
RECURSIVE LastSegment(_)
LastSegment(s) ==
  IF s = <<>> THEN <<>>
  ELSE IF s[Len(s)] = "/" THEN <<>>
  ELSE Append(LastSegment(SubSeq(s, 1, Len(s) - 1)), s[Len(s)])

\* args.url.rstrip("/").split("/")[-1]
ExtractUsername(u) == LastSegment(RStripSlash(u))

\* Python's str.strip(): whitespace characters removed at both ends
Whitespace == {" ", "\n"}

RECURSIVE LStrip(_)
LStrip(s) == IF s # <<>> /\ s[1] \in Whitespace THEN LStrip(Tail(s)) ELSE s

RECURSIVE RStrip(_)
RStrip(s) ==
  IF s # <<>> /\ s[Len(s)] \in Whitespace THEN RStrip(SubSeq(s, 1, Len(s) - 1)) ELSE s

Strip(s) == LStrip(RStrip(s))

(***************************************************************************)
(* Fetched content                                                         *)
(*                                                                         *)
(* A ContentItem is the tuple the fetcher builds:                          *)
(* <<created_utc, kind, text, permalink>>.  A text is the sequence of the  *)
(* tokens TextBlob finds in it (words, numbers, end-of-sentence marks).    *)
(* The feeds are what the platform holds for a user, newest first; a fetch *)
(* returns the items of a feed it read, in feed order.                     *)
(***************************************************************************)
PostFeed ==
  << <<1700000200, "Post", <<"Rust", "python", "rust", "go", ".">>, "/r/x/3">>,
     <<1700000000, "Post", <<"I", "love", "hiking", "and", "climbing">>, "/r/x/1">>,
     <<1699999000, "Post", <<"the", "and", "is", "42", "!">>, "/r/x/0">> >>

CommentFeed ==
  << <<1700000300, "Comment", <<"I", "hate", "go", ".", "Python", "2", "!">>, "/r/x/4">>,
     <<1700000100, "Comment", <<"Climbing", "is", "great", "exercise">>, "/r/x/2">>,
     <<1699990000, "Comment", <<>>, "/r/x/5">> >>

\* the items of feed whose index is in S, in feed order, from index i on
RECURSIVE Pick(_, _, _)
Pick(feed, S, i) ==
  IF i > Len(feed) THEN <<>>
  ELSE IF i \in S THEN <<feed[i]>> \o Pick(feed, S, i + 1)
  ELSE Pick(feed, S, i + 1)

\* the listings a fetch capped at `limit` items can return
Listings(feed, limit) ==
  { Pick(feed, S, 1) : S \in { T \in SUBSET (1..Len(feed)) : Cardinality(T) <= limit } }

(***************************************************************************)
(* Text analytics of the fallback builder                                  *)
(***************************************************************************)
Punctuation == {".", "!"}
NumberTokens == {"42", "2"}

\* str.isalpha() on a word token
IsAlpha(w) == w \notin NumberTokens /\ w \notin Punctuation

\* str.lower()
Lower(w) ==
  CASE w = "I" -> "i"
    [] w = "Rust" -> "rust"
    [] w = "Python" -> "python"
    [] w = "Climbing" -> "climbing"
    [] OTHER -> w

\* the stopword set of build_persona_simple
Stopwords ==
  {"the", "and", "is", "in", "to", "of", "a", "for", "on", "it", "with", "this",
   "that", "i", "you", "as", "was", "are", "but", "they", "be", "or", "not"}

\* " ".join([text for _, _, text, _ in posts + comments]), as tokens
RECURSIVE Combined(_)
Combined(items) ==
  IF items = <<>> THEN <<>> ELSE items[1][3] \o Combined(Tail(items))

\* blob.words: the word tokens, punctuation dropped
BlobWords(corpus) == SelectSeq(corpus, LAMBDA t : t \notin Punctuation)

\* [f(w) for w in ws]
RECURSIVE MapLower(_)
MapLower(ws) == IF ws = <<>> THEN <<>> ELSE <<Lower(ws[1])>> \o MapLower(Tail(ws))

\* [w.lower() for w in blob.words if w.isalpha() and w.lower() not in stopwords]
FilteredWords(corpus) ==
  MapLower(SelectSeq(BlobWords(corpus),
                     LAMBDA w : IsAlpha(w) /\ Lower(w) \notin Stopwords))

\* Counter(words): the keys in insertion (first occurrence) order ...
RECURSIVE CounterKeys(_)
CounterKeys(ws) ==
  IF ws = <<>> THEN <<>>
  ELSE LET rest == CounterKeys(SubSeq(ws, 1, Len(ws) - 1))
           w == ws[Len(ws)]
       IN IF \E i \in 1..Len(rest) : rest[i] = w THEN rest ELSE Append(rest, w)

\* ... and the count of a key
CountOf(ws, w) == Cardinality({ i \in 1..Len(ws) : ws[i] = w })

\* an insertion that puts a pair before the pairs of equal count
RECURSIVE InsertByCountUnstable(_, _)
InsertByCountUnstable(sorted, pair) ==
  IF sorted = <<>> THEN <<pair>>
  ELSE IF sorted[1][2] > pair[2]
       THEN <<sorted[1]>> \o InsertByCountUnstable(Tail(sorted), pair)
  ELSE <<pair>> \o sorted

\* sorted(pairs, key=count, reverse=True): a stable insertion of one pair, after
\* every pair whose count is at least its own
RECURSIVE InsertByCount(_, _)
InsertByCount(sorted, pair) ==
  IF sorted = <<>> THEN <<pair>>
  ELSE IF sorted[1][2] >= pair[2] THEN <<sorted[1]>> \o InsertByCount(Tail(sorted), pair)
  ELSE <<pair>> \o sorted

RECURSIVE SortByCount(_)
SortByCount(pairs) ==
  IF pairs = <<>> THEN <<>>
  ELSE InsertByCount(SortByCount(SubSeq(pairs, 1, Len(pairs) - 1)), pairs[Len(pairs)])

\* the cutoff of freq.most_common(5)
TopK == 5

\* Counter(words).most_common(n): heapq.nlargest(n, items, key=count), which is
\* sorted(items, key=count, reverse=True)[:n]
MostCommon(ws, n) ==
  LET keys == CounterKeys(ws)
      pairs == [i \in 1..Len(keys) |-> <<keys[i], CountOf(ws, keys[i])>>]
      ranked == SortByCount(pairs)
  IN SubSeq(ranked, 1, IF Len(ranked) < n THEN Len(ranked) ELSE n)

(***************************************************************************)
(* TextBlob: sentiment and sentences.  The library is outside the          *)
(* repository; it is modelled by its contract: the polarity and the        *)
(* subjectivity are the averages, over the words its lexicon knows, of the *)
(* lexicon's scores.  Scores are in thousandths.                           *)
(***************************************************************************)
LexiconWords == {"love", "great", "hate"}

LexPolarity(w) == CASE w = "love" -> 500 [] w = "great" -> 800 [] w = "hate" -> -800

LexSubjectivity(w) == CASE w = "love" -> 600 [] w = "great" -> 750 [] w = "hate" -> 900

RECURSIVE SumPolarity(_)
SumPolarity(ws) == IF ws = <<>> THEN 0 ELSE LexPolarity(ws[1]) + SumPolarity(Tail(ws))

RECURSIVE SumSubjectivity(_)
SumSubjectivity(ws) ==
  IF ws = <<>> THEN 0 ELSE LexSubjectivity(ws[1]) + SumSubjectivity(Tail(ws))

\* integer quotient rounding toward zero
Quot(a, b) == IF a >= 0 THEN a \div b ELSE -((-a) \div b)

\* blob.sentiment: (polarity in [-1, 1], subjectivity in [0, 1]); (0.0, 0.0)
\* when the text holds no word of the lexicon
Sentiment(corpus) ==
  LET known == SelectSeq(MapLower(BlobWords(corpus)), LAMBDA w : w \in LexiconWords)
  IN IF known = <<>> THEN [polarity |-> 0, subjectivity |-> 0]
     ELSE [polarity |-> Quot(SumPolarity(known), Len(known)),
           subjectivity |-> Quot(SumSubjectivity(known), Len(known))]

\* blob.sentences: the corpus cut after each end-of-sentence mark; `cur` is the
\* sentence being read
RECURSIVE SplitSentences(_, _)
SplitSentences(toks, cur) ==
  IF toks = <<>> THEN (IF cur = <<>> THEN <<>> ELSE <<cur>>)
  ELSE IF toks[1] \in Punctuation
       THEN <<Append(cur, toks[1])>> \o SplitSentences(Tail(toks), <<>>)
       ELSE SplitSentences(Tail(toks), Append(cur, toks[1]))

Sentences(corpus) == SplitSentences(corpus, <<>>)

\* sum(len(s.words) for s in blob.sentences)
RECURSIVE SentenceWordTotal(_)
SentenceWordTotal(ss) ==
  IF ss = <<>> THEN 0 ELSE Len(BlobWords(ss[1])) + SentenceWordTotal(Tail(ss))

(***************************************************************************)
(* Number formatting                                                       *)
(***************************************************************************)
\* num / den rounded to the nearest integer, ties to even, num >= 0, den > 0
RoundHalfEven(num, den) ==
  LET q == num \div den
      r == num % den
  IN IF 2 * r > den \/ (2 * r = den /\ q % 2 = 1) THEN q + 1 ELSE q

\* f"{x:.2f}" of a value given in thousandths
Fmt2(milli) ==
  LET a == IF milli < 0 THEN -milli ELSE milli
      h == RoundHalfEven(a, 10)
  IN (IF milli < 0 THEN "-" ELSE "") \o ToString(h \div 100) \o "."
       \o ToString((h \div 10) % 10) \o ToString(h % 10)

\* f"{x:.1f}" of the quotient num / den
Fmt1(num, den) ==
  LET t == RoundHalfEven(10 * num, den)
  IN ToString(t \div 10) \o "." \o ToString(t % 10)

\* sep.join(parts), parts being sequences of pieces
RECURSIVE Join(_, _)
Join(parts, sep) ==
  IF parts = <<>> THEN <<>>
  ELSE IF Len(parts) = 1 THEN parts[1]
  ELSE parts[1] \o <<sep>> \o Join(Tail(parts), sep)

(***************************************************************************)
(* build_persona_simple                                                    *)
(***************************************************************************)
\* a tone that calls a zero polarity positive
ToneNonNegative(polarity) == IF polarity >= 0 THEN "positive" ELSE "negative"

\* "positive" if polarity > 0 else "negative" if polarity < 0 else "neutral"
Tone(polarity) ==
  IF polarity > 0 THEN "positive" ELSE IF polarity < 0 THEN "negative" ELSE "neutral"

\* the summary line of a non-empty top list
SummaryLine(top, polarity) ==
  <<"User frequently discusses ">>
    \o Join([i \in 1..Len(top) |-> <<top[i][1]>>], ", ")
    \o <<". Overall sentiment is ", Tone(polarity), ".\n">>

\* one "- topic (mentioned n times)" line per entry of top
BulletLines(top) ==
  [i \in 1..Len(top) |-> <<"- ", top[i][1], " (mentioned ", ToString(top[i][2]), " times)">>]

\* avg_len, formatted: sum(...) / len(blob.sentences) if blob.sentences else 0
AvgLenText(corpus) ==
  LET ss == Sentences(corpus)
  IN IF ss # <<>> THEN Fmt1(SentenceWordTotal(ss), Len(ss)) ELSE Fmt1(0, 1)

\* a rendering that writes the topic summary without looking at top
PersonaLinesNoGuard(ps, cs) ==
  LET corpus == Combined(ps \o cs)
      top == MostCommon(FilteredWords(corpus), TopK)
      sentiment == Sentiment(corpus)
  IN << <<"**Summary:**">>, SummaryLine(top, sentiment.polarity),
        <<"**Key Interests/Topics:**">> >>
     \o BulletLines(top)
     \o << <<"\n**Communication Style & Tone:**">>,
           <<"- Sentiment polarity: ", Fmt2(sentiment.polarity),
             ", subjectivity: ", Fmt2(sentiment.subjectivity)>>,
           <<"- Average sentence length: ", AvgLenText(corpus), " words\n">> >>

\* the lines of the persona, in order
PersonaLines(ps, cs) ==
  LET corpus == Combined(ps \o cs)
      top == MostCommon(FilteredWords(corpus), TopK)
      sentiment == Sentiment(corpus)
  IN << <<"**Summary:**">> >>
     \o (IF top # <<>> THEN << SummaryLine(top, sentiment.polarity) >>
         ELSE << <<"Not enough content to summarize interests.\n">> >>)
     \o << <<"**Key Interests/Topics:**">> >>
     \o BulletLines(top)
     \o << <<"\n**Communication Style & Tone:**">>,
           <<"- Sentiment polarity: ", Fmt2(sentiment.polarity),
             ", subjectivity: ", Fmt2(sentiment.subjectivity)>>,
           <<"- Average sentence length: ", AvgLenText(corpus), " words\n">> >>

\* build_persona_simple(posts, comments): "\n".join(lines)
build_persona_simple(ps, cs) == Join(PersonaLines(ps, cs), "\n")

(***************************************************************************)
(* The command line                                                        *)
(***************************************************************************)
Https == <<"h", "t", "t", "p", "s", ":", "/", "/">>
RedditHost == <<"r", "e", "d", "d", "i", "t", ".", "c", "o", "m">>
Bob == <<"b", "o", "b">>

\* URLs that hold the marker ...
ValidUrls ==
  { Https \o UserMarker \o Bob,
    Https \o UserMarker \o Bob \o <<"/", "/">>,
    Https \o UserMarker \o Bob \o <<"/", "a", "l", "/">>,
    UserMarker }

\* ... and arguments that do not
InvalidUrls ==
  { <<>>,
    Https \o RedditHost \o <<"/", "u", "/">> \o Bob,
    RedditHost \o <<"/", "u", "s", "e", "r">> }

Urls == ValidUrls \cup InvalidUrls

(***************************************************************************)
(* The content fetcher                                                     *)
(***************************************************************************)
\* where the try block of fetch_user_content raises, if it does
FetchFailures == {"redditor", "submissions", "comments"}

\* a fetcher that keeps the posts read before the comments listing failed
fetch_user_content_partial(ps, cs, failure) ==
  IF failure = "comments" THEN <<[isNone |-> FALSE, val |-> ps], None>>
  ELSE IF failure \in {"redditor", "submissions"} THEN <<None, None>>
  ELSE <<[isNone |-> FALSE, val |-> ps], [isNone |-> FALSE, val |-> cs]>>

\* fetch_user_content: ps and cs are the listings the platform serves, failure
\* the place an exception is raised ("none": nowhere).  The except clause
\* returns (None, None) whatever was appended before.
fetch_user_content(ps, cs, failure) ==
  IF failure \in FetchFailures THEN <<None, None>> ELSE <<Some(ps), Some(cs)>>

(***************************************************************************)
(* The LLM generator                                                       *)
(***************************************************************************)
CompletionChars == {"x", " ", "\n"}

Completions == UNION { [1..n -> CompletionChars] : n \in 0..MaxCompletion }

\* The prompt (fmt and the template) is built from the items before the try
\* block; it changes no state and is not modelled.
\* what openai.ChatCompletion.create does: returns a completion, returns a
\* message without content, or raises (a quota error, another error)
LLMResponses ==
  { [kind |-> "ok", content |-> c] : c \in Completions }
    \cup { [kind |-> k, content |-> <<>>] : k \in {"nocontent", "quota", "error"} }

\* no request made yet
NoReply == [kind |-> "none", content |-> <<>>]

\* a generator that returns the completion untrimmed
build_persona_llm_unstripped(resp) ==
  IF resp.kind = "ok" THEN [value |-> Some(resp.content), diag |-> <<>>]
  ELSE IF resp.kind = "quota"
       THEN [value |-> None, diag |-> <<"[ERROR] OpenAI quota exceeded.">>]
       ELSE [value |-> None, diag |-> <<"[ERROR] generating persona: {e}">>]

\* build_persona_llm of main_openai.py: the value returned and the diagnostic
\* printed.  A message without content makes .strip() raise inside the try.
build_persona_llm(resp) ==
  IF resp.kind = "ok" THEN [value |-> Some(Strip(resp.content)), diag |-> <<>>]
  ELSE IF resp.kind = "quota"
       THEN [value |-> None, diag |-> <<"[ERROR] OpenAI quota exceeded.">>]
       ELSE [value |-> None, diag |-> <<"[ERROR] generating persona: {e}">>]

\* build_persona of main.py
build_persona(resp) ==
  IF resp.kind = "ok" THEN [value |-> Some(Strip(resp.content)), diag |-> <<>>]
  ELSE [value |-> None, diag |-> <<"[ERROR] generating persona: {e}">>]

(***************************************************************************)
(* The orchestrators: main() of main.py and main() of main_openai.py       *)
(*                                                                         *)
(* One action per step of main().  The printed lines are the format        *)
(* strings of the source, with the two non-ASCII marks left out (the       *)
(* ellipsis that ends some lines, the check mark written here as [ok]).    *)
(***************************************************************************)
Programs == {"main", "main_openai"}

\* out_dir / f"{username}_persona.txt"
OutPath(name) == <<"outputs/">> \o name \o <<"_persona.txt">>

Init ==
  /\ prog \in Programs
  /\ url \in Urls
  /\ pc = "start"
  /\ username = None
  /\ posts = None
  /\ comments = None
  /\ reply = NoReply
  /\ persona = None
  /\ out = <<>>
  /\ log = <<>>
  /\ files = <<>>

\* the URL check and the username extraction (the same in both programs)
ValidateUrl ==
  /\ pc = "start"
  /\ IF ~Contains(url, UserMarker)
     THEN /\ out' = Append(out, "[ERROR] Please provide a valid Reddit user profile URL.")
          /\ pc' = "done"
          /\ UNCHANGED username
     ELSE /\ username' = Some(ExtractUsername(url))
          /\ out' = Append(out, "[+] Fetching content for u/{username}")
          /\ pc' = "fetch"
  /\ UNCHANGED <<prog, url, posts, comments, reply, persona, log, files>>

\* posts, comments = fetch_user_content(username)
FetchContent ==
  /\ pc = "fetch"
  /\ \E ps \in Listings(PostFeed, MaxPosts), cs \in Listings(CommentFeed, MaxComments),
        failure \in FetchFailures \cup {"none"} :
        LET r == fetch_user_content(ps, cs, failure)
        IN /\ posts' = r[1]
           /\ comments' = r[2]
           /\ out' = IF failure \in FetchFailures
                     THEN Append(out, "[ERROR] fetching content for u/{username}: {e}")
                     ELSE out
  /\ log' = Append(log, "fetch")
  /\ pc' = "check"
  /\ UNCHANGED <<prog, url, username, reply, persona, files>>

\* main.py: the None check and the empty check after the fetch
CheckContentMain ==
  /\ pc = "check"
  /\ prog = "main"
  /\ IF posts.isNone \/ comments.isNone
     THEN /\ pc' = "done"
          /\ UNCHANGED out
     ELSE IF posts.val = <<>> /\ comments.val = <<>>
     THEN /\ out' = out \o <<"[+] Fetched {n} posts and {m} comments.",
                             "[!] No content found for u/{username}; exiting.">>
          /\ pc' = "done"
     ELSE /\ out' = out \o <<"[+] Fetched {n} posts and {m} comments.",
                             "[+] Generating persona with OpenAI ChatCompletion">>
          /\ pc' = "generate"
  /\ UNCHANGED <<prog, url, username, posts, comments, reply, persona, log, files>>

\* main_openai.py: the single check after the fetch
CheckContentOpenai ==
  /\ pc = "check"
  /\ prog = "main_openai"
  /\ IF Falsy(posts) /\ Falsy(comments)
     THEN /\ out' = Append(out, "[ERROR] No posts or comments found; exiting.")
          /\ pc' = "done"
     ELSE /\ out' = Append(out, "[+] Trying OpenAI persona generation")
          /\ pc' = "generate"
  /\ UNCHANGED <<prog, url, username, posts, comments, reply, persona, log, files>>

\* main.py: persona = build_persona(...), and the exit on an empty persona
GenerateMain ==
  /\ pc = "generate"
  /\ prog = "main"
  /\ \E resp \in LLMResponses :
        LET r == build_persona(resp)
        IN /\ reply' = resp
           /\ persona' = r.value
           /\ IF Falsy(r.value)
              THEN /\ out' = out \o r.diag
                             \o <<"[!] Persona generation returned empty; exiting.">>
                   /\ pc' = "done"
              ELSE /\ out' = out \o r.diag
                   /\ pc' = "write"
  /\ log' = Append(log, "llm")
  /\ UNCHANGED <<prog, url, username, posts, comments, files>>

\* a generation step that asks the LLM again after a failure
GenerateOpenaiRetry ==
  /\ pc = "generate"
  /\ prog = "main_openai"
  /\ \E resp \in LLMResponses :
        LET r == build_persona_llm(resp)
        IN /\ reply' = resp
           /\ persona' = r.value
           /\ out' = out \o r.diag
           /\ pc' = IF r.value.isNone /\ Len(log) < 3 THEN "generate" ELSE "fallback"
  /\ log' = Append(log, "llm")
  /\ UNCHANGED <<prog, url, username, posts, comments, files>>

\* main_openai.py: persona = build_persona_llm(...)
GenerateOpenai ==
  /\ pc = "generate"
  /\ prog = "main_openai"
  /\ \E resp \in LLMResponses :
        LET r == build_persona_llm(resp)
        IN /\ reply' = resp
           /\ persona' = r.value
           /\ out' = out \o r.diag
  /\ log' = Append(log, "llm")
  /\ pc' = "fallback"
  /\ UNCHANGED <<prog, url, username, posts, comments, files>>

\* main_openai.py: if not persona: persona = build_persona_simple(posts, comments)
FallbackOpenai ==
  /\ pc = "fallback"
  /\ IF Falsy(persona)
     THEN /\ out' = Append(out, "[+] Falling back to simple persona builder")
          /\ persona' = Some(build_persona_simple(posts.val, comments.val))
          /\ log' = Append(log, "simple")
     ELSE UNCHANGED <<out, persona, log>>
  /\ pc' = "write"
  /\ UNCHANGED <<prog, url, username, posts, comments, reply, files>>

\* out_dir.mkdir(exist_ok=True); out_file.write_text(persona); print(...)
WriteOutput ==
  /\ pc = "write"
  /\ log' = log \o <<"mkdir", "write">>
  /\ files' = Append(files, [path |-> OutPath(username.val), content |-> persona.val])
  /\ out' = Append(out, IF prog = "main"
                        THEN "[ok] Wrote {n} characters to {out_file}"
                        ELSE "[ok] Persona written to {out_file}")
  /\ pc' = "done"
  /\ UNCHANGED <<prog, url, username, posts, comments, reply, persona>>

Next ==
  \/ ValidateUrl
  \/ FetchContent
  \/ CheckContentMain
  \/ CheckContentOpenai
  \/ GenerateMain
  \/ GenerateOpenai
  \/ FallbackOpenai
  \/ WriteOutput

Spec == Init /\ [][Next]_vars

(***************************************************************************)
(* Vocabulary of the properties                                            *)
(***************************************************************************)
Printed(line) == \E i \in 1..Len(out) : out[i] = line

Called(step) == \E i \in 1..Len(log) : log[i] = step

Calls(step) == Cardinality({ i \in 1..Len(log) : log[i] = step })

FetchErrorLine == "[ERROR] fetching content for u/{username}: {e}"

\* the fetch raised: its except clause printed the error
FetchFailed == Printed(FetchErrorLine)

\* the fetch returned two lists, at least one with an item
HasContent ==
  /\ ~posts.isNone
  /\ ~comments.isNone
  /\ posts.val # <<>> \/ comments.val # <<>>

\* the fetch returned two empty lists
EmptyButValid ==
  /\ Called("fetch")
  /\ ~FetchFailed
  /\ posts = [isNone |-> FALSE, val |-> <<>>]
  /\ comments = [isNone |-> FALSE, val |-> <<>>]

\* t is s without its leading and trailing whitespace
IsTrimOf(t, s) ==
  /\ t # <<>> => t[1] \notin Whitespace /\ t[Len(t)] \notin Whitespace
  /\ \E i \in 1..(Len(s) + 1) :
       /\ i + Len(t) - 1 <= Len(s)
       /\ t = SubSeq(s, i, i + Len(t) - 1)
       /\ \A k \in 1..Len(s) : (k < i \/ k > i + Len(t) - 1) => s[k] \in Whitespace

\* the LLM was asked and gave no usable text: it raised, or its completion is
\* empty once trimmed
LLMGaveNothing ==
  /\ Called("llm")
  /\ reply.kind # "ok" \/ \A k \in 1..Len(reply.content) : reply.content[k] \in Whitespace

\* the LLM was asked and returned a completion
LLMSucceeded == Called("llm") /\ reply.kind = "ok"

\* the corpus the fallback builder works on, and its filtered words
Corpus == Combined(posts.val \o comments.val)

CorpusWords == FilteredWords(Corpus)

Top == MostCommon(CorpusWords, TopK)

\* position of the first occurrence of w in ws
FirstIndex(ws, w) == CHOOSE i \in 1..Len(ws) : ws[i] = w /\ \A j \in 1..(i - 1) : ws[j] # w

\* the one output file of a run
OneFile(content) ==
  /\ Len(files) = 1
  /\ files[1].path = <<"outputs/">> \o username.val \o <<"_persona.txt">>
  /\ files[1].content = content

(***************************************************************************)
(* Properties                                                              *)
(***************************************************************************)
InvalidUrlLine == "[ERROR] Please provide a valid Reddit user profile URL."
FetchingLine == "[+] Fetching content for u/{username}"
NoContentLines ==
  {"[!] No content found for u/{username}; exiting.",
   "[ERROR] No posts or comments found; exiting."}

\* C1: in both programs, a run whose fetch returned content and whose LLM
\* generator gave nothing (None or an empty completion) calls the fallback
\* builder on the same posts and comments and writes its text to
\* outputs/<username>_persona.txt.
C1_LLMFailureFallsBack ==
  (pc = "done" /\ HasContent /\ LLMGaveNothing)
    => /\ Calls("simple") = 1
       /\ OneFile(build_persona_simple(posts.val, comments.val))

\* the same, of main_openai.py alone
OpenaiLLMFailureFallsBack ==
  (prog = "main_openai" /\ pc = "done" /\ HasContent /\ LLMGaveNothing)
    => /\ Calls("simple") = 1
       /\ OneFile(build_persona_simple(posts.val, comments.val))

\* C2: when the fetch fails (it returns (None, None)), an error line is
\* printed, neither generator is called, the outputs directory is not made
\* and no file is written.
C2_FetchFailureStops ==
  /\ (Called("fetch") /\ (posts.isNone \/ comments.isNone)) => FetchFailed
  /\ FetchFailed =>
       /\ posts = None /\ comments = None
       /\ pc \in {"check", "done"}
       /\ ~Called("llm") /\ ~Called("simple")
       /\ ~Called("mkdir") /\ ~Called("write")
       /\ persona = None
       /\ files = <<>>

C2_Witness == prog = "main_openai" /\ pc = "done" /\ FetchFailed /\ Len(out) > 2

\* C3: at both call sites a fetch error ends the run with the fetch error
\* line only, an empty but valid result ends it with a "no content" line of
\* its own, and neither writes a file.
C3_ErrorAndEmptyDistinct ==
  pc = "done" =>
    /\ FetchFailed => out = <<FetchingLine, FetchErrorLine>> /\ files = <<>>
    /\ EmptyButValid =>
         /\ \E l \in NoContentLines : Printed(l)
         /\ files = <<>>

\* C4, as stated: whenever the LLM call succeeds, what is written is the
\* completion trimmed, and the fallback builder is not called.
C4_SuccessWritesCompletion ==
  (pc = "done" /\ LLMSucceeded)
    => /\ ~Called("simple")
       /\ \A i \in 1..Len(files) : IsTrimOf(files[i].content, reply.content)

\* C4, amended: whenever the LLM call succeeds with a completion that is not
\* empty once trimmed, the one file written holds exactly the completion
\* trimmed, and the fallback builder is not called.
C4_NonEmptyCompletionWritten ==
  (pc = "done" /\ LLMSucceeded /\ ~LLMGaveNothing)
    => /\ ~Called("simple")
       /\ Len(files) = 1
       /\ files[1].path = <<"outputs/">> \o username.val \o <<"_persona.txt">>
       /\ IsTrimOf(files[1].content, reply.content)

C4_Witness ==
  /\ pc = "done" /\ prog = "main_openai" /\ LLMSucceeded
  /\ Len(files) = 1
  /\ Len(files[1].content) < Len(reply.content)

\* C5: an argument without the marker "reddit.com/user/" is reported and the
\* run ends with no other effect: no username, no fetch, no generator, no
\* directory, no file.
C5_InvalidUrlNoEffect ==
  (url \in InvalidUrls /\ pc # "start")
    => /\ pc = "done"
       /\ out = <<InvalidUrlLine>>
       /\ username = None
       /\ posts = None /\ comments = None
       /\ reply = NoReply /\ persona = None
       /\ log = <<>>
       /\ files = <<>>

C5_Witness == url \in InvalidUrls /\ url # <<>> /\ pc = "done" /\ Printed(InvalidUrlLine)

\* C6: the external steps of a run happen at most once each and in the order
\* fetch, LLM, fallback, write; the fallback only after an LLM attempt; the
\* write last, only after a fetch with content and a generator with text.
C6_OnceAndInOrder ==
  /\ \E full \in { <<"fetch", "llm", "simple", "mkdir", "write">>,
                   <<"fetch", "llm", "mkdir", "write">> } :
        Len(log) <= Len(full) /\ log = SubSeq(full, 1, Len(log))
  /\ Len(files) = Calls("write")
  /\ Called("write") =>
       /\ pc = "done"
       /\ HasContent
       /\ ~persona.isNone /\ persona.val # <<>>
       /\ files[1].content = persona.val
  /\ pc = "done" => ~ENABLED Next

C6_Witness == log = <<"fetch", "llm", "simple", "mkdir", "write">>

\* the (topic, count) bullets of a rendered persona, in order
RECURSIVE RenderedTop(_)
RenderedTop(p) ==
  IF Len(p) < 5 THEN <<>>
  ELSE IF p[1] = "- " /\ p[3] = " (mentioned " /\ p[5] = " times)"
       THEN << <<p[2], p[4]>> >> \o RenderedTop(SubSeq(p, 6, Len(p)))
       ELSE RenderedTop(Tail(p))

\* w ranks before v: a higher count, or the same count and an earlier first
\* occurrence
RanksBefore(ws, w, v) ==
  \/ CountOf(ws, w) > CountOf(ws, v)
  \/ CountOf(ws, w) = CountOf(ws, v) /\ FirstIndex(ws, w) < FirstIndex(ws, v)

\* C7: with at least one non-stopword alphabetic token, the top list rendered
\* by build_persona_simple has 1 to 5 entries with their true counts, in
\* descending order of count, equal counts in order of first occurrence, and
\* no token left out ranks before a token kept.
C7_TopListRanked ==
  (Called("simple") /\ CorpusWords # <<>>) =>
    LET top == RenderedTop(persona.val)
        ws == CorpusWords
    IN /\ Len(top) >= 1 /\ Len(top) <= 5
       /\ \A i \in 1..Len(top) :
            /\ \E k \in 1..Len(ws) : ws[k] = top[i][1]
            /\ top[i][2] = ToString(CountOf(ws, top[i][1]))
       /\ \A i, j \in 1..Len(top) : i < j => RanksBefore(ws, top[i][1], top[j][1])
       /\ \A k \in 1..Len(ws) :
            (\A i \in 1..Len(top) : top[i][1] # ws[k])
              => /\ Len(top) = 5
                 /\ \A i \in 1..Len(top) : RanksBefore(ws, top[i][1], ws[k])

\* a fallback run with more than five distinct tokens and a tie at the cutoff
C7_Witness ==
  /\ Called("simple")
  /\ Cardinality({ CorpusWords[k] : k \in 1..Len(CorpusWords) }) > 5
  /\ LET top == RenderedTop(persona.val)
     IN /\ Len(top) = 5
        /\ \E k \in 1..Len(CorpusWords) :
             /\ \A i \in 1..5 : top[i][1] # CorpusWords[k]
             /\ ToString(CountOf(CorpusWords, CorpusWords[k])) = top[5][2]
        /\ top[1][2] # top[5][2]

ToneLabels == {"positive", "negative", "neutral"}

\* C8: with no token left after filtering, build_persona_simple still returns
\* its text: the summary says there is not enough content, there is no topic
\* bullet and no tone label, and the average sentence length is rendered, as
\* 0.0 when the corpus has no sentence.
C8_NoTokensStillRenders ==
  (Called("simple") /\ CorpusWords = <<>>) =>
    LET p == persona.val
    IN /\ ~persona.isNone
       /\ Len(p) = 16
       /\ SubSeq(p, 1, 9) =
            <<"**Summary:**", "\n", "Not enough content to summarize interests.\n", "\n",
              "**Key Interests/Topics:**", "\n", "\n**Communication Style & Tone:**", "\n",
              "- Sentiment polarity: ">>
       /\ p[11] = ", subjectivity: "
       /\ SubSeq(p, 13, 14) = <<"\n", "- Average sentence length: ">>
       /\ p[16] = " words\n"
       /\ RenderedTop(p) = <<>>
       /\ \A i \in 1..Len(p) : p[i] \notin ToneLabels /\ p[i] # ". Overall sentiment is "
       /\ Corpus = <<>> => p[15] = "0.0"

C8_Witness == Called("simple") /\ Corpus = <<>> /\ pc = "done" /\ Len(files) = 1

\* the tone labels a rendered persona shows
TonePieces(p) == { p[i + 1] : i \in { k \in 1..(Len(p) - 1) : p[k] = ". Overall sentiment is " } }

\* C9: the tone label is one of positive, negative, neutral and matches the
\* sign of the polarity, for every polarity in [-1, 1] (in hundredths) and in
\* every persona the fallback builder renders with a tone.
C9_ToneMatchesPolarity ==
  /\ \A h \in -100..100 :
       LET t == Tone(10 * h)
       IN /\ t \in ToneLabels
          /\ t = "positive" <=> h > 0
          /\ t = "negative" <=> h < 0
          /\ t = "neutral" <=> h = 0
  /\ (Called("simple") /\ CorpusWords # <<>>) =>
       LET pol == Sentiment(Corpus).polarity
       IN TonePieces(persona.val) =
            { IF pol > 0 THEN "positive" ELSE IF pol < 0 THEN "negative" ELSE "neutral" }

\* a persona rendered for a corpus whose sentiment words cancel out
C9_Witness ==
  /\ Called("simple")
  /\ \E k \in 1..Len(CorpusWords) : CorpusWords[k] = "hate"
  /\ Sentiment(Corpus).polarity = 0
  /\ TonePieces(persona.val) = {"neutral"}

\* C10: the fetch result is (None, None) or two lists, never a mix, and what
\* was read before a failure is dropped; a generator is only called with two
\* lists, one of them non-empty, and the username handed on is not empty.
C10_GeneratorsGetLists ==
  /\ posts.isNone <=> comments.isNone
  /\ FetchFailed => posts = None /\ comments = None
  /\ (pc \in {"fetch", "check", "generate", "fallback", "write"} \/ Called("fetch"))
       => ~username.isNone /\ username.val # <<>>
  /\ (pc \in {"generate", "fallback", "write"} \/ Called("llm") \/ Called("simple"))
       => HasContent

C10_Witness == Called("simple") /\ HasContent /\ posts.val = <<>> /\ Len(username.val) = 2

====
